---- MODULE Spec2Model ----
(***************************************************************************)
(* Connection Manager of the OpenCode browser extension                    *)
(* (extension/background.js): native port lifecycle, request id            *)
(* allocation, the pendingRequests table and the routing of relay frames.  *)
(*                                                                         *)
(* The browser is the environment.  A native port is "open" until its      *)
(* transport closes; from then on postMessage on it throws and its         *)
(* onDisconnect event is queued ("closing") until the event loop runs      *)
(* handleNativeDisconnect ("gone").  Every handler of the script runs to   *)
(* completion, so each handler is one action; the only suspension point    *)
(* is the await of getTabContext inside the send_to_opencode listener.     *)
(*                                                                         *)
(* The native host (native-host/opencode_bridge.py, as listed in the       *)
(* implementation plan) is modelled beside it: its codec, read_message and *)
(* send_message over byte streams, and its start-up and main loop.  Spec   *)
(* is the extension, RelaySpec the native host process, CodecSpec the      *)
(* codec applied to documents and to streams cut short.  LifecycleSpec is   *)
(* the extension's connection lifecycle over a longer life, FairSpec the   *)
(* extension under the scheduling of the event loop.                       *)
(*                                                                         *)
(* Three more components stand each on its own: a UI surface               *)
(* (sidebar/sidebar.js, SidebarSpec), the MCP server (ensureBrowser and     *)
(* cleanup of its index.ts, ServerSpec) and the config hooks of the two    *)
(* OpenCode plugins (PluginSpec).                                          *)
(***************************************************************************)
EXTENDS Integers, Sequences, FiniteSets, TLC

\* ---------------------------------------------------------------- bounds
MaxRequests == 2        \* send_to_opencode submissions in one lifetime
MaxPorts == 2           \* native ports created in one lifetime
NumTabs == 1            \* browser tabs that can host a UI surface
MaxPending == 2         \* entries of pendingRequests alive at once
MaxFrames == 2          \* frames written to one stream
MaxSends == 6           \* send_to_opencode submissions in a connection lifecycle
LifecyclePorts == 4     \* native ports created in a connection lifecycle
MaxSubmits == 4         \* prompts submitted from one UI surface
MaxCalls == 2           \* tool calls made to the MCP server
MaxHooks == 2           \* config hook runs on one configuration object

\* ------------------------------------------------------- program constants
MAX_RECONNECT_ATTEMPTS == 3

NoPort == 0             \* nativePort = null
NoTab == 0              \* sender.tab?.id is undefined (sidebar, popup)
NoId == -1              \* a frame without a requestId field
NoProcess == 0          \* opencode_process = None

Tabs == 1..NumTabs
Senders == Tabs \cup {NoTab}
RequestIds == 1..MaxRequests
\* requestId values a relay frame can carry: 0 is falsy and is never assigned
FrameIds == (0..MaxRequests) \cup {NoId}
FrameTypes == {"response", "stream_event", "stream_complete"}
Frames == [type : FrameTypes, requestId : FrameIds]

VARIABLES
    nativePort,          \* background.js:20
    reconnectAttempts,   \* background.js:21
    pendingRequests,     \* background.js:26  requestId -> tabId
    requestIdCounter,    \* background.js:27
    portState,           \* browser: every port ever created
    timers,              \* browser: pending setTimeout callbacks of line 152
    awaiting,            \* async bodies suspended at `await getTabContext()`
    origin,              \* history: the surface that submitted each live request
    assigned,            \* history: the request ids in the order they were assigned
    autoAttempts,        \* history: timer-made connect calls since the last send or frame
    notified,            \* history: ConnectionLost was broadcast since the last connect
    out,                 \* history: what the most recent handler did
    \* the native host process, opencode_bridge.py
    pc,                  \* where the script is: "start", "loop", or how it ended
    opencode_process,    \* opencode_bridge.py:19
    stdin,               \* the bytes of sys.stdin not read yet
    stdinClosed,         \* the writer of sys.stdin has closed it
    stdout,              \* the bytes written to sys.stdout
    children,            \* OS: `opencode serve` processes spawned and still running
    posts,               \* history: the prompts posted to the backing server
    installed,           \* OS: shutil.which('opencode') finds the binary
    serverUp,            \* OS: a server already answers on OPENCODE_PORT
    byteorder,           \* OS: sys.byteorder, which '=' in a struct format follows
    requests,            \* history: the frame bodies the browser wrote
    written,             \* history: the documents given to send_message
    decoded,             \* history: what each read_message call did
    \* a UI surface, sidebar/sidebar.js (popup/popup.js is the same script)
    isLoading,           \* sidebar.js:50
    elements,            \* sidebar.js:15  the DOM: promptInput, sendButton, status
    surface,             \* history: replies awaited, requests in flight, submissions
    \* the MCP server, mcp-server/index.ts
    browser,             \* index.ts:34  (0 is null)
    page,                \* index.ts:35  (0 is null)
    calls,               \* where each tool call is inside ensureBrowser
    shutdown,            \* where the signal handler is inside cleanup
    chromium,            \* playwright: the browsers and pages that exist
    \* a plugin's config hook
    config,              \* the configuration object handed to the hook
    hooks                \* history: the plugins whose hook has run, in order

\* the extension's variables and the native host's
manager == <<nativePort, reconnectAttempts, pendingRequests, requestIdCounter,
             portState, timers, awaiting, origin, assigned,
             autoAttempts, notified, out>>
host == <<pc, opencode_process, stdin, stdinClosed, stdout, children, posts,
          installed, serverUp, byteorder, requests, written, decoded>>

ui == <<isLoading, elements, surface>>
server == <<browser, page, calls, shutdown, chromium>>
plugins == <<config, hooks>>

vars == <<manager, host, ui, server, plugins>>

\* what a specification of one component leaves alone
exceptManager == <<host, ui, server, plugins>>
exceptHost == <<manager, ui, server, plugins>>
exceptSidebar == <<manager, host, server, plugins>>
exceptServer == <<manager, host, ui, plugins>>
exceptPlugins == <<manager, host, ui, server>>

code == <<nativePort, reconnectAttempts, pendingRequests, requestIdCounter>>

\* ------------------------------------------------------------- helpers
\* what a handler did.  on: the event it handled; rid: the request id of
\* the frame or request; call: how the tabs.sendMessage call it made, if
\* any, ended; tab: the tab that call delivered to; bcast: runtime.sendMessage
\* (every extension page) was called; msg: the type of the message sent;
\* reply: the reply given through sendResponse; err: the handler threw
Did(on, rid, call, tab, bcast, msg, reply, err) ==
    [on |-> on, rid |-> rid, call |-> call, tab |-> tab, bcast |-> bcast,
     msg |-> msg, reply |-> reply, err |-> err]

Quiet(on, rid) == Did(on, rid, "none", NoTab, FALSE, "none", "none", FALSE)
Replied(on, rid, reply) ==
    Did(on, rid, "none", NoTab, FALSE, "none", reply, FALSE)

Max(S) == CHOOSE x \in S : \A y \in S : y <= x
Remove(f, k) == [x \in DOMAIN f \ {k} |-> f[x]]
Put(f, k, v) == [x \in DOMAIN f \cup {k} |-> IF x = k THEN v ELSE f[x]]

\* the ports connectNative can hand out in this lifetime
PortIds == DOMAIN portState
FreePorts == {p \in PortIds : portState[p] = "unborn"}
NewPort == CHOOSE p \in FreePorts : \A q \in FreePorts : p <= q
OpenPorts == {p \in PortIds : portState[p] = "open"}

\* connectNative can hand out a port only while the model has one left
ConnectOutcomes == IF FreePorts = {} THEN {FALSE} ELSE BOOLEAN

\* ------------------------------------------------- connectToNativeHost
\* faulty variant: the catch block schedules a retry of its own
connectToNativeHost_retry(canConnect) ==
    IF canConnect
    THEN [ok |-> TRUE,
          nativePort |-> NewPort,
          portState |-> [portState EXCEPT ![NewPort] = "open"],
          reconnectAttempts |-> 0,
          timers |-> timers]
    ELSE [ok |-> FALSE,
          nativePort |-> nativePort,
          portState |-> portState,
          reconnectAttempts |-> reconnectAttempts + 1,
          timers |-> timers + 1]

\* background.js:33-59.  `canConnect` is whether browser.runtime.connectNative
\* returns a port (TRUE) or throws (FALSE).  The result holds the return value
\* and the values of the variables the function writes.
connectToNativeHost(canConnect) ==
    LET released == IF nativePort # NoPort /\ portState[nativePort] = "open"
                    THEN [portState EXCEPT ![nativePort] = "gone"]
                    ELSE portState
    IN  IF canConnect
        THEN [ok |-> TRUE,
              nativePort |-> NewPort,
              portState |-> [released EXCEPT ![NewPort] = "open"],
              reconnectAttempts |-> 0,
              timers |-> timers]
        ELSE [ok |-> FALSE,
              nativePort |-> nativePort,
              portState |-> released,
              reconnectAttempts |-> reconnectAttempts,
              timers |-> timers]

\* the state as a result record, for the paths that do not connect
NotCalled ==
    [ok |-> TRUE, nativePort |-> nativePort, portState |-> portState,
     reconnectAttempts |-> reconnectAttempts, timers |-> timers]

\* ---------------------------------------------------- sendToNativeHost
\* faulty variant: a postMessage that throws is not noticed
sendToNativeHost_optimistic(canConnect) ==
    LET c == IF nativePort = NoPort THEN connectToNativeHost(canConnect)
             ELSE NotCalled
    IN  IF ~c.ok
        THEN [sent |-> FALSE, cause |-> "connect", connected |-> FALSE, after |-> c]
        ELSE [sent |-> TRUE, cause |-> "none",
              connected |-> (nativePort = NoPort), after |-> c]

\* background.js:181-197.  postMessage throws on a port whose transport has
\* closed.  `cause` tells a failed connect from a failed postMessage.
sendToNativeHost(canConnect) ==
    LET c == IF nativePort = NoPort THEN connectToNativeHost(canConnect)
             ELSE NotCalled
    IN  IF ~c.ok
        THEN [sent |-> FALSE, cause |-> "connect", connected |-> FALSE, after |-> c]
        ELSE IF c.portState[c.nativePort] = "open"
        THEN [sent |-> TRUE, cause |-> "none",
              connected |-> (nativePort = NoPort), after |-> c]
        ELSE [sent |-> FALSE, cause |-> "post",
              connected |-> (nativePort = NoPort),
              after |-> [c EXCEPT !.nativePort = NoPort]]

\* ------------------------------------- runtime.onMessage: send_to_opencode
\* faulty variant: the id is derived from the size of the table
NextRequestId_size(counter) == Cardinality(DOMAIN pendingRequests) + 1

\* background.js:246  const requestId = ++requestIdCounter
NextRequestId(counter) == counter + 1

\* background.js:245-249 and 299: the synchronous part of the listener, for
\* a lifetime of at most `sends` submissions with at most `alive` entries
SubmitWithin(sends, alive, sender) ==
    /\ Len(assigned) < sends
    /\ Cardinality(DOMAIN origin) < alive
    /\ LET requestId == NextRequestId(requestIdCounter)
       IN  /\ requestIdCounter' = requestId
           /\ pendingRequests' = Put(pendingRequests, requestId, sender)
           /\ awaiting' = awaiting \cup {requestId}
           /\ origin' = Put(origin, requestId, sender)
           /\ assigned' = Append(assigned, requestId)
           /\ out' = Quiet("send_to_opencode", requestId)
    /\ UNCHANGED <<nativePort, reconnectAttempts, portState, timers,
                   autoAttempts, notified>>

Submit(sender) == SubmitWithin(MaxRequests, MaxPending, sender)

\* background.js:273-277: the reply given when sendToNativeHost returned false
\* (the object has no troubleshooting property; read as an empty list)
SendFailedReply ==
    [type |-> "opencode_response", success |-> FALSE,
     error |-> "Failed to connect to OpenCode. Please try again.",
     troubleshooting |-> << >>]

\* faulty variant: the failed request is left in the table
AfterSendFailed_keep(requestId) == pendingRequests

\* background.js:271-279: the entries left after a failed send
AfterSendFailed(requestId) == Remove(pendingRequests, requestId)

\* faulty variant: the id is read from the counter when the message is built
PostedId_latest(requestId) == requestIdCounter

\* background.js:257 and 283: the id put in the native message and in the
\* acknowledgement is the constant captured at submission
PostedId(requestId) == requestId

\* background.js:251-296: the async body once getTabContext has resolved
\* (getTabContext catches its own errors, so the await never rejects)
AsyncSend(requestId, canConnect) ==
    /\ requestId \in awaiting
    /\ awaiting' = awaiting \ {requestId}
    /\ LET s == sendToNativeHost(canConnect)
       IN  /\ nativePort' = s.after.nativePort
           /\ portState' = s.after.portState
           /\ reconnectAttempts' = s.after.reconnectAttempts
           /\ notified' = IF s.connected THEN FALSE ELSE notified
           /\ IF s.sent
              THEN /\ pendingRequests' = pendingRequests
                   /\ origin' = origin
                   /\ out' = Replied("sent", PostedId(requestId), "send_acknowledged")
              ELSE /\ pendingRequests' = AfterSendFailed(requestId)
                   /\ origin' = Remove(origin, requestId)
                   /\ out' = Replied(IF s.cause = "connect" THEN "send_failed_connect"
                                      ELSE "send_failed_post",
                                      requestId, "opencode_response_failure")
           /\ timers' = s.after.timers
    /\ autoAttempts' = 0
    /\ UNCHANGED <<requestIdCounter, assigned>>

\* ------------------------------------------------------ handleNativeMessage
Truthy(requestId) == requestId # NoId /\ requestId # 0

\* What handleNativeMessage returns in the model: the new table and what
\* was sent.  `answer` is what the browser does with a tabs.sendMessage
\* call: the promise "resolves" or "rejects" (tab closed, no listener), or
\* the call "throws" when it is given an undefined tab id.
Handled(pending, call, tab, bcast, msg, err) ==
    [pending |-> pending, call |-> call, tab |-> tab, bcast |-> bcast,
     msg |-> msg, err |-> err]

Dropped == Handled(pendingRequests, "none", NoTab, FALSE, "none", FALSE)

\* browser.tabs.sendMessage(tabId, ..): how the call ends
TabsSendMessage(tabId, answer) ==
    IF tabId = NoTab
    THEN IF answer = "throws" THEN "threw" ELSE "rejected"
    ELSE IF answer = "resolves" THEN "resolved" ELSE "rejected"

\* faulty variant: one shared "last sender" instead of one entry per request
PendingTab_latest(requestId) == pendingRequests[Max(DOMAIN pendingRequests)]

\* background.js:72 and 94  pendingRequests.get(requestId).tabId
PendingTab(requestId) == pendingRequests[requestId]

\* faulty variant: no has() check, so an unknown id dereferences undefined
OnStreamEvent_unchecked(requestId, answer) ==
    IF requestId \in DOMAIN pendingRequests
    THEN LET call == TabsSendMessage(PendingTab(requestId), answer)
         IN  Handled(pendingRequests, call,
                     IF call = "resolved" THEN PendingTab(requestId) ELSE NoTab,
                     FALSE,
                     IF call = "resolved" THEN "streaming_event" ELSE "none",
                     call = "threw")
    ELSE Handled(pendingRequests, "none", NoTab, FALSE, "none", TRUE)

\* background.js:69-81
OnStreamEvent(requestId, answer) ==
    IF requestId # NoId /\ requestId \in DOMAIN pendingRequests
    THEN LET call == TabsSendMessage(PendingTab(requestId), answer)
         IN  Handled(pendingRequests, call,
                     IF call = "resolved" THEN PendingTab(requestId) ELSE NoTab,
                     FALSE,
                     IF call = "resolved" THEN "streaming_event" ELSE "none",
                     call = "threw")
    ELSE Dropped

\* faulty variant: the entry is not deleted on stream completion
OnStreamComplete_keep(requestId) == Dropped

\* background.js:84-90
OnStreamComplete(requestId) ==
    IF requestId # NoId
    THEN Handled(Remove(pendingRequests, requestId), "none", NoTab, FALSE,
                 "none", FALSE)
    ELSE Dropped

\* background.js:93-117
OnResponse(requestId, answer) ==
    LET left == Remove(pendingRequests, requestId)
    IN  IF PendingTab(requestId) # NoTab
        THEN LET call == TabsSendMessage(PendingTab(requestId), answer)
             IN  IF call = "resolved"
                 THEN Handled(left, call, PendingTab(requestId), FALSE,
                              "opencode_response", FALSE)
                 ELSE Handled(left, call, NoTab, TRUE, "opencode_response", FALSE)
        ELSE Handled(left, "none", NoTab, TRUE, "opencode_response", FALSE)

\* faulty variant: the legacy path sends to a tab instead of the extension pages
OnLegacy_toTab ==
    Handled(pendingRequests, "resolved", Max(Tabs), FALSE, "opencode_response",
            FALSE)

\* background.js:119-131
OnLegacy ==
    Handled(pendingRequests, "none", NoTab, TRUE, "opencode_response", FALSE)

\* background.js:65-132
handleNativeMessage(message, answer) ==
    IF message.type = "stream_event"
    THEN OnStreamEvent(message.requestId, answer)
    ELSE IF message.type = "stream_complete"
    THEN OnStreamComplete(message.requestId)
    ELSE IF Truthy(message.requestId) /\ message.requestId \in DOMAIN pendingRequests
    THEN OnResponse(message.requestId, answer)
    ELSE OnLegacy

\* the answers the browser can give to the tabs.sendMessage call, if any,
\* that handling `message` makes
TabAnswers(message) ==
    IF /\ message.type \in {"stream_event", "response"}
       /\ message.requestId \in DOMAIN pendingRequests
    THEN {"resolves", "rejects", "throws"}
    ELSE {"rejects"}

\* the frames the relay can send: it answers only what it was sent, so no
\* frame carries the id of a request whose async body has not posted yet;
\* any other id, or none, can arrive, in any order and any number of times
InboundFrames ==
    {f \in Frames : f.requestId \in ({NoId, 0} \cup (1..requestIdCounter)) \ awaiting}

Terminal(message) ==
    \/ message.type = "stream_complete" /\ message.requestId # NoId
    \/ message.type = "response" /\ Truthy(message.requestId)

\* the onMessage listener of a port fires (background.js:44)
NativeMessage(message, answer) ==
    /\ OpenPorts # {}
    /\ LET r == handleNativeMessage(message, answer)
       IN  /\ pendingRequests' = r.pending
           /\ out' = Did(message.type, message.requestId, r.call, r.tab, r.bcast,
                         r.msg, "none", r.err)
    /\ origin' = IF Terminal(message)
                 THEN Remove(origin, message.requestId) ELSE origin
    /\ autoAttempts' = 0
    /\ UNCHANGED <<nativePort, reconnectAttempts, requestIdCounter, portState,
                   timers, awaiting, assigned, notified>>

\* ---------------------------------------------------- transport and timers
\* the relay exits or the pipe breaks: the browser queues onDisconnect
TransportClose(port) ==
    /\ portState[port] = "open"
    /\ portState' = [portState EXCEPT ![port] = "closing"]
    /\ out' = Quiet("close", NoId)
    /\ UNCHANGED <<code, timers, awaiting, origin, assigned,
                   autoAttempts, notified>>

\* background.js:163-172: the message broadcast on permanent failure
ConnectionLostMessage ==
    [type |-> "opencode_response", success |-> FALSE,
     error |-> "Connection to OpenCode failed. Please reload the extension.",
     troubleshooting |->
        << "Check if OpenCode is installed: run 'opencode --version' in terminal",
           "Verify native messaging manifest is installed correctly",
           "Check Firefox browser console for more details" >>]

\* faulty variant: a disconnect fails every pending request by clearing the table
handleNativeDisconnect_clear ==
    IF reconnectAttempts < MAX_RECONNECT_ATTEMPTS
    THEN [nativePort |-> NoPort, reconnectAttempts |-> reconnectAttempts + 1,
          timers |-> timers + 1, bcast |-> pendingRequests # <<>>,
          msg |-> IF pendingRequests # <<>> THEN "opencode_response" ELSE "none",
          pending |-> <<>>, counter |-> requestIdCounter]
    ELSE [nativePort |-> NoPort, reconnectAttempts |-> reconnectAttempts,
          timers |-> timers, bcast |-> TRUE, msg |-> "connection_lost",
          pending |-> <<>>, counter |-> requestIdCounter]

\* faulty variant: every disconnect counts and schedules a reconnect
handleNativeDisconnect_unbounded ==
    [nativePort |-> NoPort, reconnectAttempts |-> reconnectAttempts + 1,
     timers |-> timers + 1, bcast |-> FALSE, msg |-> "none",
     pending |-> pendingRequests, counter |-> requestIdCounter]

\* background.js:137-174 as a function of the state: the variables it
\* writes, the timer it schedules and the broadcast it makes
handleNativeDisconnect ==
    IF reconnectAttempts < MAX_RECONNECT_ATTEMPTS
    THEN [nativePort |-> NoPort, reconnectAttempts |-> reconnectAttempts + 1,
          timers |-> timers + 1, bcast |-> FALSE, msg |-> "none",
          pending |-> pendingRequests, counter |-> requestIdCounter]
    ELSE [nativePort |-> NoPort, reconnectAttempts |-> reconnectAttempts,
          timers |-> timers, bcast |-> TRUE, msg |-> "connection_lost",
          pending |-> pendingRequests, counter |-> requestIdCounter]

\* the onDisconnect listener of a port fires (background.js:47); the
\* listener does not look at which port the event is for
NativeDisconnect(port) ==
    /\ portState[port] = "closing"
    /\ portState' = [portState EXCEPT ![port] = "gone"]
    /\ LET d == handleNativeDisconnect
       IN  /\ nativePort' = d.nativePort
           /\ reconnectAttempts' = d.reconnectAttempts
           /\ timers' = d.timers
           /\ pendingRequests' = d.pending
           /\ requestIdCounter' = d.counter
           /\ notified' = (notified \/ d.bcast)
           /\ out' = Did("disconnect", NoId, "none", NoTab, d.bcast, d.msg, "none",
                         FALSE)
    /\ UNCHANGED <<awaiting, origin, assigned, autoAttempts>>

\* faulty variant: the callback reconnects without looking at nativePort
ReconnectCallback_always(canConnect) ==
    [called |-> TRUE, after |-> connectToNativeHost(canConnect)]

\* background.js:152-156: the callback given to setTimeout
ReconnectCallback(canConnect) ==
    IF nativePort = NoPort
    THEN [called |-> TRUE, after |-> connectToNativeHost(canConnect)]
    ELSE [called |-> FALSE, after |-> NotCalled]

TimerFires(canConnect) ==
    /\ timers > 0
    /\ LET t == ReconnectCallback(canConnect)
       IN  /\ nativePort' = t.after.nativePort
           /\ portState' = t.after.portState
           /\ reconnectAttempts' = t.after.reconnectAttempts
           /\ timers' = t.after.timers - 1
           /\ autoAttempts' = IF t.called THEN autoAttempts + 1 ELSE autoAttempts
           /\ notified' = IF t.called /\ t.after.ok THEN FALSE ELSE notified
           /\ out' = Quiet(IF ~t.called THEN "timer_skipped"
                            ELSE IF t.after.ok THEN "timer_connected"
                            ELSE "timer_connect_failed", NoId)
    /\ UNCHANGED <<pendingRequests, requestIdCounter, awaiting, origin, assigned>>

\* --------------------------------------------- runtime.onMessage: the rest
\* background.js:236-242
PingReply == IF nativePort # NoPort THEN "pong_connected" ELSE "pong_disconnected"

Ping ==
    /\ out' = Replied("ping", NoId, PingReply)
    /\ UNCHANGED <<code, portState, timers, awaiting, origin, assigned, autoAttempts, notified>>

\* background.js:329-337: the entries left after a cancel_request
AfterCancel(requestId) == pendingRequests

CancelRequest(requestId) ==
    /\ requestId \in DOMAIN origin
    /\ pendingRequests' = AfterCancel(requestId)
    /\ out' = Replied("cancel_request", requestId, "cancel_acknowledged")
    /\ UNCHANGED <<nativePort, reconnectAttempts, requestIdCounter, portState,
                   timers, awaiting, origin, assigned, autoAttempts, notified>>

\* =================================================== native host (relay)
\* native-host/opencode_bridge.py as listed in the implementation plan.
\* Python values are named by their repr; a byte is its integer value.
PyNone == "None"
NotInstalledError == "{'error': 'OpenCode not installed'}"
\* {"result": response.json()} for some answer of the backing server
ResultMessage == "{'result': 'ok'}"
\* the documents handed to the codec: None, the empty object, two numbers of
\* which one is a prefix of the other, a request, a request without prompt
\* and a streamed request carrying an id
Requests ==
    {"{'prompt': 'hi'}", "{'stream': True}",
     "{'requestId': 1, 'prompt': 'hi', 'stream': True}"}
Documents == {PyNone, "{}", "1", "12"} \cup Requests

\* json.dumps(msg).encode('utf-8')
JsonDumps(msg) ==
    CASE msg = PyNone -> <<110, 117, 108, 108>>
      [] msg = "{}" -> <<123, 125>>
      [] msg = "1" -> <<49>>
      [] msg = "12" -> <<49, 50>>
      [] msg = "{'prompt': 'hi'}" ->
            <<123, 34, 112, 114, 111, 109, 112, 116, 34, 58, 32, 34, 104, 105,
              34, 125>>
      [] msg = "{'stream': True}" ->
            <<123, 34, 115, 116, 114, 101, 97, 109, 34, 58, 32, 116, 114, 117,
              101, 125>>
      [] msg = "{'requestId': 1, 'prompt': 'hi', 'stream': True}" ->
            <<123, 34, 114, 101, 113, 117, 101, 115, 116, 73, 100, 34, 58, 32,
              49, 44, 32, 34, 112, 114, 111, 109, 112, 116, 34, 58, 32, 34, 104,
              105, 34, 44, 32, 34, 115, 116, 114, 101, 97, 109, 34, 58, 32, 116,
              114, 117, 101, 125>>
      [] msg = ResultMessage ->
            <<123, 34, 114, 101, 115, 117, 108, 116, 34, 58, 32, 34, 111, 107,
              34, 125>>
      [] msg = NotInstalledError ->
            <<123, 34, 101, 114, 114, 111, 114, 34, 58, 32, 34, 79, 112, 101,
              110, 67, 111, 100, 101, 32, 110, 111, 116, 32, 105, 110, 115, 116,
              97, 108, 108, 101, 100, 34, 125>>

\* json.loads(text): the document whose JSON text this is, or JSONDecodeError.
\* No proper prefix of an object's text is a JSON text; "1" is one of "12".
JsonLoads(text) ==
    LET known == Documents \cup {NotInstalledError, ResultMessage}
    IN  IF \E d \in known : JsonDumps(d) = text
        THEN [raised |-> "", value |-> CHOOSE d \in known : JsonDumps(d) = text]
        ELSE [raised |-> "JSONDecodeError", value |-> PyNone]

\* Python truthiness of a decoded document (`if not msg`)
Truthy_py(msg) == msg \notin {PyNone, "{}"}
\* whether msg.get exists: the document is a dict
IsDict(msg) == msg \in Requests \cup {"{}", NotInstalledError, ResultMessage}
\* msg.get("prompt")
GetPrompt(msg) ==
    IF msg \in {"{'prompt': 'hi'}", "{'requestId': 1, 'prompt': 'hi', 'stream': True}"}
    THEN "hi" ELSE PyNone

Take(bytes, n) == SubSeq(bytes, 1, IF n < Len(bytes) THEN n ELSE Len(bytes))
Drop(bytes, n) == SubSeq(bytes, (IF n < Len(bytes) THEN n ELSE Len(bytes)) + 1, Len(bytes))

\* struct.pack('=I', n): four bytes in the byte order of the host
\* (the unsigned 32-bit value n, low byte first)
LittleEndian(n) ==
    <<n % 256, (n \div 256) % 256, (n \div 65536) % 256, (n \div 16777216) % 256>>
Reverse(bytes) == [i \in 1..Len(bytes) |-> bytes[Len(bytes) + 1 - i]]
StructPack(order, n) ==
    IF order = "little" THEN LittleEndian(n) ELSE Reverse(LittleEndian(n))

\* struct.unpack('=I', raw): a TUPLE holding the one integer, or struct.error
\* when raw is not four bytes long
StructUnpack(order, raw) ==
    IF Len(raw) # 4
    THEN [raised |-> "struct.error", type |-> "tuple", items |-> << >>]
    ELSE LET b == IF order = "little" THEN raw ELSE Reverse(raw)
         IN  [raised |-> "", type |-> "tuple",
              items |-> << b[1] + 256 * b[2] + 65536 * b[3] + 16777216 * b[4] >>]

\* sys.stdin.buffer.read(size) on a stream that has closed: the bytes left,
\* up to size; TypeError when size is not an integer
BufferRead(bytes, size) ==
    IF size.type # "int"
    THEN [raised |-> "TypeError", data |-> << >>, rest |-> bytes]
    ELSE [raised |-> "", data |-> Take(bytes, size.value),
          rest |-> Drop(bytes, size.value)]

PyInt(n) == [type |-> "int", value |-> n]

\* what a call of read_message did: it returned a value or raised, and the
\* bytes it left on the stream
Returned(value, rest) == [raised |-> "", value |-> value, rest |-> rest]
Raised(exception, rest) == [raised |-> exception, value |-> PyNone, rest |-> rest]

\* faulty variant: a short length prefix is taken for the end of the stream
read_message_lenient(order, bytes) ==
    LET raw_length == BufferRead(bytes, PyInt(4))
    IN  IF Len(raw_length.data) < 4
        THEN Returned(PyNone, raw_length.rest)
        ELSE LET length == StructUnpack(order, raw_length.data)
             IN  IF length.raised # ""
                 THEN Raised(length.raised, raw_length.rest)
                 ELSE LET body == BufferRead(raw_length.rest, length)
                      IN  IF body.raised # ""
                          THEN Raised(body.raised, body.rest)
                          ELSE LET doc == JsonLoads(body.data)
                               IN  IF doc.raised # ""
                                   THEN Raised(doc.raised, body.rest)
                                   ELSE Returned(doc.value, body.rest)

\* opencode_bridge.py:28-33.  `length` is the tuple struct.unpack returned,
\* not its element, and is passed to read() as it is.
read_message(order, bytes) ==
    LET raw_length == BufferRead(bytes, PyInt(4))
    IN  IF Len(raw_length.data) = 0
        THEN Returned(PyNone, raw_length.rest)
        ELSE LET length == StructUnpack(order, raw_length.data)
             IN  IF length.raised # ""
                 THEN Raised(length.raised, raw_length.rest)
                 ELSE LET body == BufferRead(raw_length.rest, length)
                      IN  IF body.raised # ""
                          THEN Raised(body.raised, body.rest)
                          ELSE LET doc == JsonLoads(body.data)
                               IN  IF doc.raised # ""
                                   THEN Raised(doc.raised, body.rest)
                                   ELSE Returned(doc.value, body.rest)

\* opencode_bridge.py:35-39: the bytes send_message writes
send_message(order, msg) ==
    LET encoded == JsonDumps(msg)
    IN  StructPack(order, Len(encoded)) \o encoded

\* ------------------------------------------------ the script's main part
\* opencode_bridge.py:21-22
check_opencode == installed

\* opencode_bridge.py:24-26: Popen starts one more child and the handle is kept
start_opencode ==
    [opencode_process |-> children + 1, children |-> children + 1]

\* opencode_bridge.py:41-45
Startup ==
    /\ pc = "start"
    /\ IF ~check_opencode
       THEN /\ stdout' = stdout \o send_message(byteorder, NotInstalledError)
            /\ written' = Append(written, NotInstalledError)
            /\ pc' = "exit_1"
            /\ UNCHANGED <<opencode_process, children>>
       ELSE /\ opencode_process' = start_opencode.opencode_process
            /\ children' = start_opencode.children
            /\ pc' = "loop"
            /\ UNCHANGED <<stdout, written>>
    /\ UNCHANGED <<stdin, stdinClosed, posts, installed, serverUp, byteorder,
                   requests, decoded>>

\* whether requests.post can reach a server on OPENCODE_PORT: one that was
\* there already, or the child once it listens
Reachable == IF serverUp \/ children > 0 THEN BOOLEAN ELSE {FALSE}

\* opencode_bridge.py:47-53: one turn of `while True`.  read(4) returns once
\* four bytes are there or the stream has closed.  An exception nobody
\* catches ends the script ("crashed"); leaving the loop ends it too
\* ("exited"), and nothing after the loop touches opencode_process.
MainLoop(reachable) ==
    /\ pc = "loop"
    /\ stdinClosed \/ Len(stdin) >= 4
    /\ LET msg == read_message(byteorder, stdin)
       IN  /\ decoded' = Append(decoded, msg)
           /\ stdin' = msg.rest
           /\ IF msg.raised # ""
              THEN pc' = "crashed" /\ UNCHANGED <<posts, stdout, written>>
              ELSE IF ~Truthy_py(msg.value)
              THEN pc' = "exited" /\ UNCHANGED <<posts, stdout, written>>
              ELSE IF ~IsDict(msg.value)
              THEN pc' = "crashed" /\ UNCHANGED <<posts, stdout, written>>
              ELSE /\ posts' = Append(posts, GetPrompt(msg.value))
                   /\ IF reachable
                      THEN /\ stdout' = stdout \o send_message(byteorder, ResultMessage)
                           /\ written' = Append(written, ResultMessage)
                           /\ pc' = "loop"
                      ELSE pc' = "crashed" /\ UNCHANGED <<stdout, written>>
    /\ UNCHANGED <<opencode_process, stdinClosed, children, installed, serverUp,
                   byteorder, requests>>

\* the bodies the browser can write: the requests, an empty object, and a
\* body that is not JSON
NotJson == <<123>>
RequestBodies == {JsonDumps(d) : d \in Requests \cup {"{}"}} \cup {NotJson}

\* the browser writes one frame to the host's stdin (background.js:189)
BrowserWrites(body) ==
    /\ pc \in {"start", "loop"}
    /\ ~stdinClosed
    /\ Len(requests) < MaxFrames
    /\ stdin' = stdin \o StructPack(byteorder, Len(body)) \o body
    /\ requests' = Append(requests, body)
    /\ UNCHANGED <<pc, opencode_process, stdinClosed, stdout, children, posts,
                   installed, serverUp, byteorder, written, decoded>>

\* the browser closes the port, or exits
BrowserCloses ==
    /\ pc \in {"start", "loop"}
    /\ ~stdinClosed
    /\ stdinClosed' = TRUE
    /\ UNCHANGED <<pc, opencode_process, stdin, stdout, children, posts,
                   installed, serverUp, byteorder, requests, written, decoded>>

\* --------------------------------------------------- the codec on its own
\* send_message writes one more document to a stream
Encode(msg) ==
    /\ pc = "codec"
    /\ ~stdinClosed
    /\ Len(written) < MaxFrames
    /\ stdout' = stdout \o send_message(byteorder, msg)
    /\ written' = Append(written, msg)
    /\ UNCHANGED <<pc, opencode_process, stdin, stdinClosed, children, posts,
                   installed, serverUp, byteorder, requests, decoded>>

\* the stream reaches a reader and closes after `cut` bytes
Carry(cut) ==
    /\ pc = "codec"
    /\ ~stdinClosed
    /\ written # << >>
    /\ stdin' = Take(stdout, cut)
    /\ stdinClosed' = TRUE
    /\ UNCHANGED <<pc, opencode_process, stdout, children, posts, installed,
                   serverUp, byteorder, requests, written, decoded>>

\* read_message is called on what is left of the stream, unless an earlier
\* call has raised
Decode ==
    /\ pc = "codec"
    /\ stdinClosed
    /\ Len(decoded) < MaxFrames
    /\ \A i \in DOMAIN decoded : decoded[i].raised = ""
    /\ LET msg == read_message(byteorder, stdin)
       IN  /\ decoded' = Append(decoded, msg)
           /\ stdin' = msg.rest
    /\ UNCHANGED <<pc, opencode_process, stdinClosed, stdout, children, posts,
                   installed, serverUp, byteorder, requests, written>>

\* ------------------------------------------- a UI surface (sidebar.js)
\* sidebar.js:170-174
updateCharCount(el, loading) ==
    [el EXCEPT !.sendButton.disabled = (el.promptInput.value = "") \/ loading]

\* sidebar.js:74-91, 96-98, 104-123: the sections shown
showError(el) ==
    [el EXCEPT !.errorSection.visible = TRUE, !.responseSection.visible = FALSE]
hideError(el) == [el EXCEPT !.errorSection.visible = FALSE]
showResponse(el) ==
    [el EXCEPT !.errorSection.visible = FALSE, !.responseSection.visible = TRUE]

\* sidebar.js:62-67
updateStatus(el, status) == [el EXCEPT !.status = status]

\* sidebar.js:180-192: the values setLoading writes, `el` being the DOM as
\* it is when setLoading is called
setLoading(el, loading) ==
    [isLoading |-> loading,
     elements |-> [el EXCEPT
        !.sendButton.disabled = loading \/ el.promptInput.value = "",
        !.promptInput.disabled = loading,
        !.status = IF loading THEN "loading" ELSE "connected"]]

\* the user types a prompt into the input (sidebar.js:446-449)
TypePrompt ==
    /\ ~elements.promptInput.disabled
    /\ elements.promptInput.value = ""
    /\ elements' = updateCharCount(
                      [elements EXCEPT !.promptInput.value = "prompt"], isLoading)
    /\ UNCHANGED <<isLoading, surface>>

\* sidebar.js:281-285: sendToOpenCode up to its await
sendToOpenCode ==
    /\ surface.submitted < MaxSubmits
    /\ isLoading' = TRUE
    /\ elements' = hideError(setLoading(elements, TRUE).elements)
    /\ surface' = [surface EXCEPT !.sending = @ + 1, !.submitted = @ + 1]

\* sidebar.js:456-461: a click on the send button
SendButtonClick ==
    /\ ~elements.sendButton.disabled
    /\ elements.promptInput.value # "" /\ ~isLoading
    /\ sendToOpenCode

\* sidebar.js:465-483: Enter in the input
EnterKey ==
    /\ ~elements.promptInput.disabled
    /\ elements.promptInput.value # "" /\ ~isLoading
    /\ sendToOpenCode

\* what the background script answers to send_to_opencode (background.js:
\* 273-284), or the rejection of runtime.sendMessage
SendReplies == {"send_acknowledged", "opencode_response_failure", "rejected"}

\* sidebar.js:285-329: sendToOpenCode from the await on.  The finally block
\* runs on every path, the early return of the acknowledgement included.
ReplyArrives(response) ==
    /\ surface.sending > 0
    /\ LET handled == IF response = "send_acknowledged"
                      THEN updateCharCount(
                              [updateStatus(elements, "loading")
                                  EXCEPT !.promptInput.value = ""], isLoading)
                      ELSE updateStatus(showError(elements), "error")
           finally == setLoading(handled, FALSE)
       IN  /\ isLoading' = finally.isLoading
           /\ elements' = finally.elements
    /\ surface' = [surface EXCEPT
                      !.sending = @ - 1,
                      !.inFlight = IF response = "send_acknowledged"
                                   THEN @ + 1 ELSE @]

\* the messages about a request in flight that end it
TerminalMessages == {"opencode_response:success", "opencode_response:error",
                     "streaming_event:complete", "streaming_event:error"}

\* sidebar.js:340-362 and 370-412: the runtime.onMessage listener
Delivered(message) ==
    /\ surface.inFlight > 0
    /\ LET loaded == setLoading(elements, message = "streaming_event:stream_started")
       IN  /\ isLoading' = loaded.isLoading
           /\ elements' =
                 IF message = "streaming_event:stream_started"
                 THEN loaded.elements
                 ELSE IF message = "streaming_event:complete"
                 THEN updateStatus(showResponse(loaded.elements), "connected")
                 ELSE IF message = "streaming_event:error"
                 THEN updateStatus(showError(loaded.elements), "error")
                 ELSE IF message = "opencode_response:success"
                 THEN setLoading(showResponse(elements), FALSE).elements
                 ELSE setLoading(showError(elements), FALSE).elements
    /\ surface' = IF message \in TerminalMessages
                  THEN [surface EXCEPT !.inFlight = @ - 1] ELSE surface

\* sidebar.js:497-511: the page after init() has run: the input is empty
\* and focused, and checkConnection has shown "connected"
SidebarLoaded ==
    /\ isLoading = FALSE
    /\ elements = [promptInput |-> [value |-> "", disabled |-> FALSE],
                   sendButton |-> [disabled |-> TRUE],
                   errorSection |-> [visible |-> FALSE],
                   responseSection |-> [visible |-> FALSE],
                   status |-> "connected"]
    /\ surface = [sending |-> 0, inFlight |-> 0, submitted |-> 0]

\* --------------------------------------- the MCP server (mcp-server/index.ts)
Calls == 1..MaxCalls

\* a tool call that has not started, and the signal handler before a signal
Idle == [at |-> "idle", held |-> 0, result |-> 0]

\* page.isClosed()
IsClosed(p) == p \notin chromium.pages

\* index.ts:47-52: the second half of ensureBrowser, run without suspension
\* after the first: with the page there it returns it, otherwise it calls
\* newContext on the browser `b` that the variable browser holds
CheckPage(b, p) ==
    IF p = 0 \/ IsClosed(p)
    THEN [at |-> "newContext", held |-> b, result |-> 0]
    ELSE [at |-> "returned", held |-> 0, result |-> p]

\* index.ts:40-45: a tool call enters ensureBrowser.  With no browser it
\* calls chromium.launch and suspends.
ToolCall(c) ==
    /\ calls[c].at = "idle"
    /\ shutdown.at # "exited"
    /\ IF browser = 0
       THEN /\ calls' = [calls EXCEPT ![c].at = "launch"]
            /\ chromium' = [chromium EXCEPT !.launches = @ + 1]
       ELSE /\ calls' = [calls EXCEPT ![c] = CheckPage(browser, page)]
            /\ chromium' = chromium
    /\ UNCHANGED <<browser, page, shutdown>>

\* index.ts:42: chromium.launch resolves and the result is assigned
LaunchResolves(c) ==
    /\ calls[c].at = "launch"
    /\ shutdown.at # "exited"
    /\ LET b == Cardinality(chromium.started) + 1
       IN  /\ chromium' = [chromium EXCEPT !.browsers = @ \cup {b},
                                            !.started = @ \cup {b}]
           /\ browser' = b
           /\ calls' = [calls EXCEPT ![c] = CheckPage(b, page)]
    /\ UNCHANGED <<page, shutdown>>

\* index.ts:48: browser.newContext resolves, or rejects on a closed browser;
\* context.newPage is called
ContextResolves(c) ==
    /\ calls[c].at = "newContext"
    /\ shutdown.at # "exited"
    /\ calls' = [calls EXCEPT ![c].at = IF calls[c].held \in chromium.browsers
                                        THEN "newPage" ELSE "threw"]
    /\ UNCHANGED <<browser, page, shutdown, chromium>>

\* index.ts:49-52: context.newPage resolves, the page is assigned and returned
PageResolves(c) ==
    /\ calls[c].at = "newPage"
    /\ shutdown.at # "exited"
    /\ IF calls[c].held \in chromium.browsers
       THEN LET p == chromium.opened + 1
            IN  /\ chromium' = [chromium EXCEPT !.pages = @ \cup {p},
                                                 !.opened = p]
                /\ page' = p
                /\ calls' = [calls EXCEPT ![c] =
                                [at |-> "returned", held |-> 0, result |-> p]]
       ELSE /\ calls' = [calls EXCEPT ![c].at = "threw"]
            /\ UNCHANGED <<page, chromium>>
    /\ UNCHANGED <<browser, shutdown>>

\* index.ts:58-66 as entered from a signal handler (index.ts:405-413): what
\* cleanup awaits next, given the variables
CleanupFrom(p, b) ==
    IF p # 0 THEN [at |-> "page.close", held |-> p, result |-> 0]
    ELSE IF b # 0 THEN [at |-> "browser.close", held |-> b, result |-> 0]
    ELSE [at |-> "exited", held |-> 0, result |-> 0]

\* SIGINT or SIGTERM arrives
Signal ==
    /\ shutdown.at = "idle"
    /\ shutdown' = CleanupFrom(page, browser)
    /\ UNCHANGED <<browser, page, calls, chromium>>

\* index.ts:60-63: page.close resolves, page = null, then the browser
PageCloseResolves ==
    /\ shutdown.at = "page.close"
    /\ chromium' = [chromium EXCEPT !.pages = @ \ {shutdown.held}]
    /\ page' = 0
    /\ shutdown' = CleanupFrom(0, browser)
    /\ UNCHANGED <<browser, calls>>

\* index.ts:64-66: browser.close resolves, browser = null, process.exit
BrowserCloseResolves ==
    /\ shutdown.at = "browser.close"
    /\ chromium' = [chromium EXCEPT !.browsers = @ \ {shutdown.held}]
    /\ browser' = 0
    /\ shutdown' = [at |-> "exited", held |-> 0, result |-> 0]
    /\ UNCHANGED <<page, calls>>

\* index.ts:34-35: the server has started and no tool has been called
ServerStarted ==
    /\ browser = 0
    /\ page = 0
    /\ calls = [c \in Calls |-> Idle]
    /\ shutdown = Idle
    /\ chromium = [browsers |-> {}, started |-> {}, launches |-> 0,
                   pages |-> {}, opened |-> 0]

\* -------------------------------------------- the plugins' config hooks
Plugins == {"opencode-webagency", "opencode-browser-agent"}

\* the key each plugin writes in config.agent and in config.mcp
AgentKey(plugin) ==
    IF plugin = "opencode-webagency" THEN "webagent" ELSE "browser-agent"
McpKey(plugin) ==
    IF plugin = "opencode-webagency" THEN "webagency-playwright"
    ELSE "opencode-browser-agent"

\* the objects each plugin builds once, when it is loaded
AgentDef(plugin) ==
    IF plugin = "opencode-webagency" THEN "finalWebAgent" ELSE "finalAgent"
McpDef(plugin) == "mcpConfig of " \o plugin

\* the keys a configuration can hold, and an entry the user wrote
AgentKeys == {"webagent", "browser-agent", "build"}
McpKeys == {"webagency-playwright", "opencode-browser-agent", "filesystem"}
UserEntry == "user"

\* config.agent or config.mcp: absent, or an object of entries
Absent == [present |-> FALSE, entries |-> << >>]
Sections(keys) ==
    {Absent} \cup
    {[present |-> TRUE, entries |-> e] :
        e \in UNION {[d -> {UserEntry}] : d \in SUBSET keys}}

\* `if (!section) section = {}; section[key] = value`
Inject(section, key, value) ==
    LET object == IF section.present THEN section.entries ELSE << >>
    IN  [present |-> TRUE,
         entries |-> [k \in DOMAIN object \cup {key} |->
                         IF k = key THEN value ELSE object[k]]]

\* faulty variant: the section is built anew, dropping what was there
ConfigHook_fresh(plugin, c) ==
    [agent |-> Inject(Absent, AgentKey(plugin), AgentDef(plugin)),
     mcp |-> Inject(Absent, McpKey(plugin), McpDef(plugin))]

\* opencode-webagency/src/index.ts:69-81 and src/index.ts:164-176
ConfigHook(plugin, c) ==
    [agent |-> Inject(c.agent, AgentKey(plugin), AgentDef(plugin)),
     mcp |-> Inject(c.mcp, McpKey(plugin), McpDef(plugin))]

\* OpenCode calls the config hook of a plugin
RunHook(plugin) ==
    /\ Len(hooks) < MaxHooks
    /\ config' = ConfigHook(plugin, config)
    /\ hooks' = Append(hooks, plugin)

\* no hook has run
PluginsLoaded ==
    /\ config = [agent |-> Absent, mcp |-> Absent]
    /\ hooks = << >>

\* the native host before the browser has launched it
HostNotStarted ==
    /\ pc = "off"
    /\ opencode_process = NoProcess
    /\ stdin = << >> /\ stdinClosed = FALSE /\ stdout = << >>
    /\ children = 0
    /\ posts = << >>
    /\ installed = TRUE /\ serverUp = FALSE /\ byteorder = "little"
    /\ requests = << >> /\ written = << >> /\ decoded = << >>

\* ------------------------------------------------------------ specification
\* background.js:20-27 and 476: the script has run connectToNativeHost once
Loaded(ports) ==
    /\ \E canConnect \in BOOLEAN :
          /\ nativePort = IF canConnect THEN 1 ELSE NoPort
          /\ portState = [p \in 1..ports |->
                            IF canConnect /\ p = 1 THEN "open" ELSE "unborn"]
    /\ reconnectAttempts = 0
    /\ pendingRequests = <<>>
    /\ requestIdCounter = 0
    /\ timers = 0
    /\ awaiting = {}
    /\ origin = <<>>
    /\ assigned = <<>>
    /\ autoAttempts = 0
    /\ notified = FALSE
    /\ out = Quiet("load", NoId)
    /\ HostNotStarted /\ SidebarLoaded /\ ServerStarted /\ PluginsLoaded

Init == Loaded(MaxPorts)

Next ==
    \/ \E sender \in Senders : Submit(sender) /\ UNCHANGED exceptManager
    \/ \E requestId \in RequestIds, canConnect \in ConnectOutcomes :
          AsyncSend(requestId, canConnect) /\ UNCHANGED exceptManager
    \/ \E message \in InboundFrames : \E answer \in TabAnswers(message) :
          NativeMessage(message, answer) /\ UNCHANGED exceptManager
    \/ \E port \in PortIds : TransportClose(port) /\ UNCHANGED exceptManager
    \/ \E port \in PortIds : NativeDisconnect(port) /\ UNCHANGED exceptManager
    \/ \E canConnect \in ConnectOutcomes : TimerFires(canConnect) /\ UNCHANGED exceptManager
    \/ Ping /\ UNCHANGED exceptManager
    \/ \E requestId \in RequestIds : CancelRequest(requestId) /\ UNCHANGED exceptManager

Spec == Init /\ [][Next]_vars

\* The event loop runs what it has queued: a resolved await resumes its async
\* body, a queued onDisconnect is delivered, an armed timer fires.  The relay,
\* for its part, completes every request it was sent for as long as a port is
\* open.  Nothing obliges the user to submit or a transport to close.
RelayCompletes(requestId) ==
    /\ requestId \in DOMAIN pendingRequests
    /\ requestId \notin awaiting
    /\ NativeMessage([type |-> "stream_complete", requestId |-> requestId],
                     "rejects")

Fairness ==
    /\ WF_vars(\E requestId \in RequestIds, canConnect \in ConnectOutcomes :
                  AsyncSend(requestId, canConnect) /\ UNCHANGED exceptManager)
    /\ WF_vars(\E port \in PortIds : NativeDisconnect(port) /\ UNCHANGED exceptManager)
    /\ WF_vars(\E canConnect \in ConnectOutcomes :
                  TimerFires(canConnect) /\ UNCHANGED exceptManager)
    /\ \A requestId \in RequestIds :
          WF_vars(RelayCompletes(requestId) /\ UNCHANGED exceptManager)

FairSpec == Init /\ [][Next]_vars /\ Fairness

\* The connection lifecycle on its own: sends from the popup (no tab id), one
\* at a time, transports closing, disconnect events and reconnect timers, with no frame
\* from the relay, over a lifetime long enough to use up the reconnect budget.
LifecycleSenders == {NoTab}
LifecycleIds == 1..MaxSends

LifecycleNext ==
    \/ \E sender \in LifecycleSenders :
          awaiting = {} /\ SubmitWithin(MaxSends, MaxSends, sender) /\ UNCHANGED exceptManager
    \/ \E requestId \in LifecycleIds, canConnect \in ConnectOutcomes :
          AsyncSend(requestId, canConnect) /\ UNCHANGED exceptManager
    \/ \E port \in PortIds : TransportClose(port) /\ UNCHANGED exceptManager
    \/ \E port \in PortIds : NativeDisconnect(port) /\ UNCHANGED exceptManager
    \/ \E canConnect \in ConnectOutcomes : TimerFires(canConnect) /\ UNCHANGED exceptManager

LifecycleInit == Loaded(LifecyclePorts)

LifecycleSpec == LifecycleInit /\ [][LifecycleNext]_vars

\* the extension before its background script has run
ManagerNotLoaded ==
    /\ nativePort = NoPort
    /\ portState = [p \in 1..MaxPorts |-> "unborn"]
    /\ reconnectAttempts = 0
    /\ pendingRequests = << >>
    /\ requestIdCounter = 0
    /\ timers = 0
    /\ awaiting = {}
    /\ origin = << >>
    /\ assigned = << >>
    /\ autoAttempts = 0
    /\ notified = FALSE
    /\ out = Quiet("load", NoId)

ByteOrders == {"little", "big"}

\* the browser has launched the native host: opencode_bridge.py:15-19
RelayInit ==
    /\ ManagerNotLoaded /\ SidebarLoaded /\ ServerStarted /\ PluginsLoaded
    /\ pc = "start"
    /\ opencode_process = NoProcess
    /\ stdin = << >> /\ stdinClosed = FALSE /\ stdout = << >>
    /\ children = 0
    /\ posts = << >>
    /\ installed \in BOOLEAN /\ serverUp \in BOOLEAN /\ byteorder \in ByteOrders
    /\ requests = << >> /\ written = << >> /\ decoded = << >>

RelayNext ==
    \/ Startup /\ UNCHANGED exceptHost
    \/ \E reachable \in Reachable : MainLoop(reachable) /\ UNCHANGED exceptHost
    \/ \E body \in RequestBodies : BrowserWrites(body) /\ UNCHANGED exceptHost
    \/ BrowserCloses /\ UNCHANGED exceptHost

RelaySpec == RelayInit /\ [][RelayNext]_vars

\* send_message and read_message applied to documents and to streams
CodecInit ==
    /\ ManagerNotLoaded /\ SidebarLoaded /\ ServerStarted /\ PluginsLoaded
    /\ pc = "codec"
    /\ opencode_process = NoProcess
    /\ stdin = << >> /\ stdinClosed = FALSE /\ stdout = << >>
    /\ children = 0
    /\ posts = << >>
    /\ installed = TRUE /\ serverUp = FALSE /\ byteorder \in ByteOrders
    /\ requests = << >> /\ written = << >> /\ decoded = << >>

CodecNext ==
    \/ \E msg \in Documents : Encode(msg) /\ UNCHANGED exceptHost
    \/ \E cut \in 0..Len(stdout) : Carry(cut) /\ UNCHANGED exceptHost
    \/ Decode /\ UNCHANGED exceptHost

CodecSpec == CodecInit /\ [][CodecNext]_vars

\* A UI surface on its own: the user, the replies of the background script
\* and the messages delivered to the page.
SidebarInit ==
    /\ SidebarLoaded
    /\ ManagerNotLoaded /\ HostNotStarted /\ ServerStarted /\ PluginsLoaded

SidebarNext ==
    \/ TypePrompt /\ UNCHANGED exceptSidebar
    \/ SendButtonClick /\ UNCHANGED exceptSidebar
    \/ EnterKey /\ UNCHANGED exceptSidebar
    \/ \E response \in SendReplies : ReplyArrives(response) /\ UNCHANGED exceptSidebar
    \/ \E message \in TerminalMessages \cup {"streaming_event:stream_started"} :
          Delivered(message) /\ UNCHANGED exceptSidebar

SidebarSpec == SidebarInit /\ [][SidebarNext]_vars

\* The MCP server on its own: tool calls that overlap, and a signal.
ServerInit ==
    /\ ServerStarted
    /\ ManagerNotLoaded /\ HostNotStarted /\ SidebarLoaded /\ PluginsLoaded

ServerNext ==
    \/ \E c \in Calls : ToolCall(c) /\ UNCHANGED exceptServer
    \/ \E c \in Calls : LaunchResolves(c) /\ UNCHANGED exceptServer
    \/ \E c \in Calls : ContextResolves(c) /\ UNCHANGED exceptServer
    \/ \E c \in Calls : PageResolves(c) /\ UNCHANGED exceptServer
    \/ Signal /\ UNCHANGED exceptServer
    \/ PageCloseResolves /\ UNCHANGED exceptServer
    \/ BrowserCloseResolves /\ UNCHANGED exceptServer

ServerSpec == ServerInit /\ [][ServerNext]_vars

\* The config hooks applied to every configuration object over the keys.
PluginInit ==
    /\ config \in [agent : Sections(AgentKeys), mcp : Sections(McpKeys)]
    /\ hooks = << >>
    /\ ManagerNotLoaded /\ HostNotStarted /\ SidebarLoaded /\ ServerStarted

PluginNext ==
    \E plugin \in Plugins : RunHook(plugin) /\ UNCHANGED exceptPlugins

PluginSpec == PluginInit /\ [][PluginNext]_vars

\* ===================================================================== claims
FrameEvents == FrameTypes
Connected == nativePort # NoPort

\* C1 (as stated): a non-stream response for a live request r is delivered to
\* the destination recorded for r at submission time (its tab, or the
\* extension pages when no tab was recorded) and to no other destination.
C1_DeliveredToRecordedOnly ==
    [][(out'.on = "response" /\ out'.rid \in DOMAIN origin) =>
          IF origin[out'.rid] = NoTab
          THEN out'.tab = NoTab /\ out'.bcast
          ELSE out'.tab = origin[out'.rid] /\ ~out'.bcast]_vars

\* C1 (amended): a non-stream response for a live request r is offered with
\* tabs.sendMessage to the tab recorded for r at submission time, if one was
\* recorded, and is delivered to no other tab; exactly when no tab was
\* recorded or that call does not resolve is it broadcast to the extension
\* pages instead.
C1_RoutedByRecordedEntry ==
    [][(out'.on = "response" /\ out'.rid \in DOMAIN origin) =>
          /\ out'.msg = "opencode_response"
          /\ out'.call = "none" <=> origin[out'.rid] = NoTab
          /\ out'.tab = IF out'.call = "resolved" THEN origin[out'.rid] ELSE NoTab
          /\ out'.bcast <=> out'.call # "resolved"
          /\ ~out'.err]_vars

\* a response reached the tab recorded for it while another request, recorded
\* for a different surface, was pending
C1_Witness ==
    /\ out.on = "response" /\ out.tab # NoTab /\ out.msg = "opencode_response"
    /\ \E q \in DOMAIN origin : q < out.rid /\ origin[q] # out.tab

\* C2: the request ids assigned in one lifetime are strictly increasing, so no
\* id is assigned twice, whatever became of the earlier requests.
C2_IdsStrictlyIncreasing ==
    /\ \A i, j \in DOMAIN assigned : i < j => assigned[i] < assigned[j]
    /\ DOMAIN pendingRequests \subseteq {assigned[i] : i \in DOMAIN assigned}

\* a second id was assigned after the first request had left the table
C2_Witness ==
    /\ Len(assigned) >= 2
    /\ assigned[1] \notin DOMAIN pendingRequests
    /\ assigned[Len(assigned)] \in DOMAIN pendingRequests

\* C3: a relay frame removes an entry of pendingRequests exactly when it is a
\* non-stream response whose id is pending or a stream_complete carrying an
\* id, and then it removes that entry and no other; a stream_event removes
\* nothing.
C3_RemovedExactlyOnTerminal ==
    [][out'.on \in FrameEvents =>
          pendingRequests' =
             IF \/ out'.on = "response" /\ out'.rid \in DOMAIN pendingRequests
                \/ out'.on = "stream_complete" /\ out'.rid # NoId
             THEN Remove(pendingRequests, out'.rid)
             ELSE pendingRequests]_vars

\* a stream_complete for an assigned id has been handled and its entry is
\* gone while another entry stays
C3_Witness ==
    /\ out.on = "stream_complete"
    /\ out.rid \in 1..requestIdCounter
    /\ out.rid \notin DOMAIN pendingRequests
    /\ pendingRequests # <<>>

\* C4: a stream_event whose id is not pending is delivered nowhere, raises no
\* error and changes no variable of the manager; a stream_event is delivered
\* only for a request that no terminal frame has completed.
C4_UnknownStreamEventIgnored ==
    [][out'.on = "stream_event" =>
          /\ out'.rid \notin DOMAIN pendingRequests =>
                /\ out'.call = "none" /\ out'.tab = NoTab /\ ~out'.bcast
                /\ out'.msg = "none" /\ ~out'.err
                /\ UNCHANGED <<code, portState, timers>>
          /\ out'.msg # "none" => out'.rid \in DOMAIN origin]_vars

\* a stream_event for an id that was assigned and has since been completed
\* has been handled
C4_Witness ==
    /\ out.on = "stream_event"
    /\ out.rid \in 1..requestIdCounter
    /\ out.rid \notin DOMAIN pendingRequests
    /\ out.rid \notin DOMAIN origin

\* C5 (as stated): a relay frame that has no id, or whose id is not pending,
\* is delivered to no UI surface and raises no error.
C5_UnroutableDropped ==
    [][(out'.on \in FrameEvents /\ out'.rid \notin DOMAIN pendingRequests) =>
          out'.tab = NoTab /\ ~out'.bcast /\ ~out'.err]_vars

\* C5 (amended): an unroutable stream_event or stream_complete is dropped; an
\* unroutable non-stream response is sent to no tab and raises no error, but
\* is broadcast to the extension pages as an opencode_response.
C5_UnroutableDroppedOrBroadcast ==
    [][(out'.on \in FrameEvents /\ out'.rid \notin DOMAIN pendingRequests) =>
          /\ out'.call = "none" /\ out'.tab = NoTab /\ ~out'.err
          /\ out'.bcast <=> (out'.on = "response")
          /\ out'.msg = IF out'.on = "response" THEN "opencode_response" ELSE "none"
          /\ UNCHANGED pendingRequests]_vars

\* a late response, for an id whose entry had been removed, has been handled
C5_Witness ==
    /\ out.on = "response"
    /\ out.rid \in 1..requestIdCounter
    /\ out.rid \notin DOMAIN origin
    /\ out.bcast

\* C6 (as stated): with no send and no relay traffic in between, the manager
\* makes at most MAX_RECONNECT_ATTEMPTS automatic reconnection attempts.
C6_AtMostMaxAttempts == autoAttempts <= MAX_RECONNECT_ATTEMPTS

\* C7 (as stated): whenever a disconnect has been handled and the manager is
\* disconnected with nothing left that would retry (no timer pending, no
\* onDisconnect event queued), ConnectionLost has been broadcast.
C7_NeverStopsSilently ==
    (/\ ~Connected
     /\ timers = 0
     /\ \E p \in PortIds : portState[p] = "gone"
     /\ \A p \in PortIds : portState[p] # "closing")
    => notified

\* C8 (as stated): a send that fails because the connect attempt fails leaves
\* the request id counter as it was before the send.
C8_NoIdAllocated ==
    (out.on = "send_failed_connect" /\ out.rid = assigned[Len(assigned)])
    => requestIdCounter = out.rid - 1

\* C8 (amended): a send that fails because the connect attempt fails replies
\* with a failure and removes its entry, but keeps the id it was assigned at
\* submission: the counter is not rolled back, so the id is never reused.
C8_FailedSendKeepsId ==
    [][out'.on = "send_failed_connect" =>
          /\ ~Connected /\ ~Connected'
          /\ out'.reply = "opencode_response_failure"
          /\ out'.rid \notin DOMAIN pendingRequests'
          /\ requestIdCounter' = requestIdCounter
          /\ out'.rid <= requestIdCounter']_vars

\* a send failed on connect and the id it had been given is the counter's value
C8_Witness ==
    /\ out.on = "send_failed_connect"
    /\ out.rid = requestIdCounter
    /\ out.rid \notin DOMAIN pendingRequests

\* C9 (as stated): a cancel_request for r is acknowledged and removes the
\* entry of r from pendingRequests.
C9_CancelRemovesEntry ==
    out.on = "cancel_request" =>
        out.reply = "cancel_acknowledged" /\ out.rid \notin DOMAIN pendingRequests

\* C10: a connectToNativeHost call that cannot get a port returns false
\* without throwing and leaves the manager disconnected (a ping then reports
\* connected=false); it schedules no timer and leaves reconnectAttempts alone.
C10_ConnectFailsSilently ==
    [][out'.on \in {"send_failed_connect", "timer_connect_failed"} =>
          /\ nativePort' = NoPort
          /\ PingReply' = "pong_disconnected"
          /\ reconnectAttempts' = reconnectAttempts
          /\ timers' <= timers
          /\ ~out'.err]_vars

\* the connect made by a reconnect timer failed
C10_Witness ==
    /\ out.on = "timer_connect_failed"
    /\ nativePort = NoPort
    /\ reconnectAttempts > 0

\* C11 (as stated): a stream_event for a pending request is delivered to the
\* surface that submitted the request, whether that surface is a tab or an
\* extension page without a tab id, unless the recorded tab refuses it.
C11_StreamEventReachesSubmitter ==
    [][(out'.on = "stream_event" /\ out'.rid \in DOMAIN pendingRequests) =>
          \/ /\ out'.msg = "streaming_event"
             /\ IF origin[out'.rid] = NoTab THEN out'.bcast
                ELSE out'.tab = origin[out'.rid]
          \/ origin[out'.rid] # NoTab /\ out'.call = "rejected"]_vars

\* C12 (as stated): when the delivery of a response or of a stream_event to
\* the recorded tab fails, the entry of that request does not stay in
\* pendingRequests.
C12_FailedDeliveryRemovesEntry ==
    [][(/\ out'.on \in {"response", "stream_event"}
        /\ out'.rid \in DOMAIN pendingRequests
        /\ pendingRequests[out'.rid] # NoTab
        /\ out'.call = "rejected")
       => out'.rid \notin DOMAIN pendingRequests']_vars

\* C13 (as stated): every failure message surfaced to a UI surface carries a
\* non-empty troubleshooting list.
C13_FailuresCarryTroubleshooting ==
    /\ out.reply = "opencode_response_failure" =>
          Len(SendFailedReply.troubleshooting) > 0
    /\ out.msg = "connection_lost" =>
          Len(ConnectionLostMessage.troubleshooting) > 0

\* C14: handling a transport disconnect leaves pendingRequests and
\* requestIdCounter as they were and sends nothing about any single request:
\* no reply, no message to a tab, and at most the ConnectionLost broadcast.
C14_DisconnectIsLifecycleOnly ==
    [][out'.on = "disconnect" =>
          /\ UNCHANGED <<pendingRequests, requestIdCounter>>
          /\ out'.rid = NoId /\ out'.call = "none" /\ out'.tab = NoTab
          /\ out'.reply = "none" /\ ~out'.err
          /\ out'.msg \in {"none", "connection_lost"}
          /\ out'.bcast <=> (out'.msg = "connection_lost")
          /\ nativePort' = NoPort]_vars

\* a disconnect has been handled while a request was pending
C14_Witness ==
    /\ out.on = "disconnect"
    /\ pendingRequests # << >>
    /\ \E r \in DOMAIN pendingRequests : r \notin awaiting

\* the n-th call of read_message found the stream closed with nothing on it
EndOfStream(n) ==
    n \in DOMAIN decoded /\ decoded[n].raised = "" /\ decoded[n].value = PyNone
\* the relay has taken up the n-th frame the browser wrote
TakenUp(n) ==
    n \in DOMAIN decoded /\ n \in DOMAIN requests /\ ~EndOfStream(n)
FrameLength(msg) == 4 + Len(JsonDumps(msg))

\* C15 (as stated): the relay answers the requests one at a time and in
\* order, and a streamed request it has taken up is closed by one
\* stream_complete frame carrying the request's id before the relay goes on.
C15_StreamedRequestCompleted ==
    \A n \in DOMAIN decoded :
        (/\ TakenUp(n)
         /\ requests[n] = JsonDumps("{'requestId': 1, 'prompt': 'hi', 'stream': True}"))
        => /\ n \in DOMAIN written
           /\ written[n] = "{'type': 'stream_complete', 'requestId': 1}"

\* C16 (as stated): a request document written by send_message and read back
\* by read_message from the start of its frame comes back as the same
\* document, and the read takes exactly 4 + length bytes off the stream.
C16_RoundTrip ==
    [][(/\ pc = "codec"
        /\ Len(decoded') = Len(decoded) + 1
        /\ Len(decoded') \in DOMAIN written
        /\ written[Len(decoded')] \in Requests
        /\ Len(stdin) >= FrameLength(written[Len(decoded')]))
       => /\ decoded'[Len(decoded')].raised = ""
          /\ decoded'[Len(decoded')].value = written[Len(decoded')]
          /\ Len(stdin') = Len(stdin) - FrameLength(written[Len(decoded')])]_vars

\* C17: read_message called at the start of a frame on a stream that closed
\* inside that frame (inside the length prefix, or after it and before the
\* end of the body) raises and returns no document; it returns None, the end
\* of the stream, exactly when no byte was left to read.
C17_TruncatedFrameRaises ==
    [][(/\ pc = "codec"
        /\ Len(decoded') = Len(decoded) + 1
        /\ Len(decoded') \in DOMAIN written)
       => LET n == Len(decoded')
          IN  /\ (0 < Len(stdin) /\ Len(stdin) < FrameLength(written[n])) =>
                    decoded'[n].raised \in {"struct.error", "TypeError"}
              /\ (decoded'[n].raised = "" /\ decoded'[n].value = PyNone)
                    <=> Len(stdin) = 0]_vars

\* a stream that closed after the whole length prefix and part of the body
\* has been read, and the read raised
C17_Witness ==
    /\ pc = "codec"
    /\ Len(decoded) = 1
    /\ decoded[1].raised # ""
    /\ 0 < Len(stdin) /\ Len(stdin) < Len(JsonDumps(written[1]))
    /\ Len(stdout) - Len(stdin) > 4

\* C18 (as stated): once the relay has left its loop on the end of its input,
\* no child it spawned is still running.
C18_ChildStoppedOnExit == pc = "exited" => children = 0

\* C19 (as stated): at most one child is live, and a child is spawned only
\* when no server answers on the port.
C19_SpawnOnlyWhenAbsent ==
    /\ children <= 1
    /\ opencode_process # NoProcess => ~serverUp

\* C20 (as stated): a request that is not JSON or has no prompt is answered
\* with an error frame, is not forwarded, and leaves the relay in its loop.
C20_InvalidRequestAnswered ==
    \A n \in DOMAIN decoded :
        (TakenUp(n) /\ requests[n] \in {NotJson, JsonDumps("{'stream': True}"),
                                         JsonDumps("{}")}) =>
            /\ pc = "loop"
            /\ n \in DOMAIN written
            /\ posts = << >>

\* C22: a send_to_opencode is answered once, by its async body and not by the
\* listener itself: with send_acknowledged carrying its id when the message
\* was posted to an open port, the entry staying in pendingRequests; with
\* an opencode_response of success=false when it could not be posted, the
\* entry being removed.
C22_OneReplyPerSend ==
    /\ out.on = "send_to_opencode" =>
          out.reply = "none" /\ out.rid \in awaiting
    /\ out.on = "sent" =>
          /\ out.reply = "send_acknowledged"
          /\ out.rid \in DOMAIN pendingRequests /\ out.rid \notin awaiting
          /\ Connected /\ portState[nativePort] = "open"
    /\ out.on \in {"send_failed_connect", "send_failed_post"} =>
          /\ out.reply = "opencode_response_failure"
          /\ ~SendFailedReply.success
          /\ out.rid \notin DOMAIN pendingRequests /\ out.rid \notin awaiting

\* a postMessage threw and the request was failed while another request,
\* posted before, keeps its entry
C22_Witness ==
    /\ out.on = "send_failed_post"
    /\ out.reply = "opencode_response_failure"
    /\ \E r \in DOMAIN pendingRequests : r < out.rid /\ r \notin awaiting

\* C23 (as stated): at most one native port is open at a time, and whenever a
\* port is open nativePort refers to it; the disconnect of a port that has
\* been superseded does not clear the reference to the current port.
C23_OnePortAndItIsCurrent ==
    /\ Cardinality(OpenPorts) <= 1
    /\ OpenPorts # {} => nativePort \in OpenPorts

PortCreated ==
    \E p \in PortIds : portState[p] = "unborn" /\ portState'[p] = "open"

\* C25: reconnectAttempts stays within 0..MAX_RECONNECT_ATTEMPTS; it grows
\* only in a disconnect that schedules a reconnect timer, by one; every
\* connectToNativeHost that gets a port sets it to 0, also when the budget
\* was used up; nothing else changes it.
C25_AttemptsWithinBudget ==
    [][/\ reconnectAttempts \in 0..MAX_RECONNECT_ATTEMPTS
       /\ reconnectAttempts' \in 0..MAX_RECONNECT_ATTEMPTS
       /\ reconnectAttempts' > reconnectAttempts =>
             /\ out'.on = "disconnect"
             /\ reconnectAttempts' = reconnectAttempts + 1
             /\ timers' = timers + 1
       /\ PortCreated => reconnectAttempts' = 0
       /\ reconnectAttempts' < reconnectAttempts => PortCreated
       /\ (out'.on = "disconnect" /\ reconnectAttempts = MAX_RECONNECT_ATTEMPTS) =>
             timers' = timers /\ out'.msg = "connection_lost"]_vars

\* the budget is used up while connectNative can still return a port
C25_Witness ==
    /\ reconnectAttempts = MAX_RECONNECT_ATTEMPTS
    /\ out.on = "disconnect"
    /\ FreePorts # {}

\* C26 (as stated): requests are posted in increasing id order: when a
\* request is posted, no request with a smaller id is still waiting for its
\* getTabContext to resolve.
C26_PostedInIdOrder ==
    out.on = "sent" => \A q \in awaiting : q > out.rid

\* C26 (amended): a request is posted when its own getTabContext await
\* resolves, whatever its id: it is posted once, under the id it was given at
\* submission, its entry is kept, and the other suspended bodies stay
\* suspended; only a submission suspends a body, under a fresh id.
C26_PostedAsAwaitsResolve ==
    [][/\ out'.on = "sent" =>
             /\ out'.rid \in awaiting
             /\ awaiting' = awaiting \ {out'.rid}
             /\ out'.rid \in DOMAIN pendingRequests'
       /\ awaiting' \ awaiting # {} =>
             /\ out'.on = "send_to_opencode"
             /\ requestIdCounter' > requestIdCounter
             /\ awaiting' = awaiting \cup {requestIdCounter'}]_vars

\* the later of two overlapping requests has been posted first
C26_Witness ==
    /\ out.on = "sent"
    /\ \E q \in awaiting : q < out.rid

\* C27 (as stated): every request that has been acknowledged eventually has
\* its entry removed from pendingRequests, whether the relay completes it or
\* the transport is lost first.
C27_AcknowledgedEventuallyRemoved ==
    \A requestId \in RequestIds :
        (requestId \in DOMAIN pendingRequests /\ requestId \notin awaiting)
            ~> (requestId \notin DOMAIN pendingRequests)

\* C21: running a plugin's config hook leaves config.agent and config.mcp
\* present, holding the plugin's agent and MCP server under the plugin's
\* keys; every other entry is what it was; and running the same hook again
\* changes nothing.
C21_HookInjectsAndKeepsTheRest ==
    [][\A plugin \in Plugins : hooks' = Append(hooks, plugin) =>
          /\ config'.agent.present /\ config'.mcp.present
          /\ config'.agent.entries[AgentKey(plugin)] = AgentDef(plugin)
          /\ config'.mcp.entries[McpKey(plugin)] = McpDef(plugin)
          /\ DOMAIN config'.agent.entries =
                DOMAIN config.agent.entries \cup {AgentKey(plugin)}
          /\ DOMAIN config'.mcp.entries =
                DOMAIN config.mcp.entries \cup {McpKey(plugin)}
          /\ \A k \in DOMAIN config.agent.entries \ {AgentKey(plugin)} :
                config'.agent.entries[k] = config.agent.entries[k]
          /\ \A k \in DOMAIN config.mcp.entries \ {McpKey(plugin)} :
                config'.mcp.entries[k] = config.mcp.entries[k]
          /\ ConfigHook(plugin, config') = config']_vars

\* both hooks have run on a configuration that had an agent of the user's
\* and no mcp section
C21_Witness ==
    /\ hooks = <<"opencode-webagency", "opencode-browser-agent">>
    /\ DOMAIN config.agent.entries = AgentKeys
    /\ config.agent.entries["build"] = UserEntry
    /\ DOMAIN config.mcp.entries = {McpKey(p) : p \in Plugins}

\* C28 (as stated): while a prompt of the surface is being sent or is in
\* flight the surface is loading, with the input and the send button
\* disabled, so that the surface has at most one request under way.
C28_LoadingWhileInFlight ==
    /\ surface.sending + surface.inFlight <= 1
    /\ surface.sending + surface.inFlight > 0 =>
          /\ isLoading
          /\ elements.promptInput.disabled
          /\ elements.sendButton.disabled

\* C29 (as stated): at most one browser exists at a time, also when tool
\* calls overlap, and the tool calls that have got a page have got the same
\* page.
C29_OneBrowserOnePage ==
    /\ Cardinality(chromium.browsers) <= 1
    /\ \A c, d \in Calls :
          (calls[c].at = "returned" /\ calls[d].at = "returned") =>
              calls[c].result = calls[d].result

====
